---- MODULE Spec2Model ----
(***************************************************************************)
(* Model of xi-modal-input/src/gesture.rs: the resolution of pointer       *)
(* gestures (Select, SelectExtend, Drag) into a multi-region selection,    *)
(* with the drag-state slot the caller keeps between calls.                *)
(*                                                                         *)
(* Offsets are 0-based as in the source; TLA+ sequences are 1-based, so    *)
(* the character at offset p is text[p + 1] and the region of index i      *)
(* (0-based, as in the source) is regions[i + 1].                          *)
(* Option<T> is a sequence of length 0 (None) or 1 (Some).                 *)
(***************************************************************************)
EXTENDS Integers, Sequences, FiniteSets, TLC

VARIABLES text, sel, drag_state, call, steps

vars == <<text, sel, drag_state, call, steps>>

\* Number of gestures the caller issues in one run.
MaxSteps == 3

None == <<>>

Some(x) == <<x>>

Min2(a, b) == IF a <= b THEN a ELSE b

Max2(a, b) == IF a >= b THEN a ELSE b

---------------------------------------------------------------------------
(* xi_core_lib::selection::SelRegion, as used by gesture.rs *)

\* SelRegion::new(start, end): horiz is None.
SelRegionNew(start, end) == [start |-> start, end |-> end, horiz |-> None]

\* SelRegion::caret(pos)
SelRegionCaret(pos) == [start |-> pos, end |-> pos, horiz |-> None]

\* SelRegion::with_horiz(horiz)
WithHoriz(r, h) == [r EXCEPT !.horiz = h]

RMin(r) == Min2(r.start, r.end)

RMax(r) == Max2(r.start, r.end)

IsCaret(r) == r.start = r.end

\* SelRegion::should_merge(self, other), with self.min() <= other.min():
\* interiors intersect, or one is a caret touching the other.
ShouldMerge(self, other) ==
    \/ RMin(other) < RMax(self)
    \/ (IsCaret(self) \/ IsCaret(other)) /\ RMin(other) = RMax(self)

\* SelRegion::merge_with(self, other): the hull, keeping self's direction.
MergeWith(self, other) ==
    LET is_forward == self.end >= self.start
        new_min == Min2(RMin(self), RMin(other))
        new_max == Max2(RMax(self), RMax(other))
    IN  IF is_forward THEN SelRegionNew(new_min, new_max)
                      ELSE SelRegionNew(new_max, new_min)

---------------------------------------------------------------------------
(* xi_core_lib::selection::Selection: a Vec<SelRegion> *)

\* Selection::from(region) / Selection::new_simple(region)
SelectionFrom(region) == <<region>>

\* remove_n_at(v, index, n): v without its n elements from index on.
RemoveNAt(v, index, n) ==
    [i \in 1..(Len(v) - n) |-> IF i <= index THEN v[i] ELSE v[i + n]]

\* Vec::insert(index, element)
InsertAt(v, index, e) ==
    [i \in 1..(Len(v) + 1) |->
        IF i <= index THEN v[i] ELSE IF i = index + 1 THEN e ELSE v[i - 1]]

\* Selection::search(offset): the smallest index such that offset > max()
\* of every preceding region (a binary search on max() in the library: the
\* regions of a Selection are kept sorted with strictly increasing max(),
\* see SelectionOK, so it finds the index this scan finds).
RECURSIVE SearchFrom(_, _, _)
SearchFrom(regions, offset, i) ==
    IF i >= Len(regions) THEN Len(regions)
    ELSE IF RMax(regions[i + 1]) >= offset THEN i
    ELSE SearchFrom(regions, offset, i + 1)

Search(regions, offset) == SearchFrom(regions, offset, 0)

\* The while loop of Selection::add_region: merge the following regions.
RECURSIVE AddRegionLoop(_, _, _)
AddRegionLoop(regions, region, end_ix) ==
    IF end_ix < Len(regions) /\ ShouldMerge(region, regions[end_ix + 1])
    THEN AddRegionLoop(regions, MergeWith(region, regions[end_ix + 1]), end_ix + 1)
    ELSE [region |-> region, end_ix |-> end_ix]

\* Selection::add_region(region)
AddRegion(regions, region) ==
    LET ix0 == Search(regions, RMin(region)) IN
    IF ix0 = Len(regions) THEN Append(regions, region)
    ELSE
      LET first == regions[ix0 + 1]
          before == RMin(first) <= RMin(region)
          merge0 == before /\ ShouldMerge(first, region)
          region1 == IF merge0 THEN MergeWith(region, first) ELSE region
          ix == IF before /\ ~merge0 THEN ix0 + 1 ELSE ix0
          end0 == IF before THEN ix0 + 1 ELSE ix0
          l == AddRegionLoop(regions, region1, end0)
      IN  IF ix = l.end_ix
          THEN InsertAt(regions, ix, l.region)
          ELSE RemoveNAt([regions EXCEPT ![ix + 1] = l.region],
                         ix + 1, l.end_ix - ix - 1)

\* Selection::regions_in_range(start, end): the slice [first, last).
RegionsInRange(regions, start, end) ==
    LET first == Search(regions, start)
        last0 == Search(regions, end)
        last1 == IF last0 < Len(regions) /\ RMin(regions[last0 + 1]) <= end
                 THEN last0 + 1 ELSE last0
    IN  SubSeq(regions, first + 1, last1)

\* Selection::delete_range(start, end, delete_adjacent)
DeleteRange(regions, start, end, delete_adjacent) ==
    LET first0 == Search(regions, start)
        last0 == Search(regions, end)
    IN  IF first0 >= Len(regions) THEN regions
        ELSE
          LET first == IF ~delete_adjacent /\ RMax(regions[first0 + 1]) = start
                       THEN first0 + 1 ELSE first0
              last == IF last0 < Len(regions)
                         /\ (\/ delete_adjacent /\ RMin(regions[last0 + 1]) <= end
                             \/ ~delete_adjacent /\ RMin(regions[last0 + 1]) < end)
                      THEN last0 + 1 ELSE last0
          IN  RemoveNAt(regions, first, last - first)

---------------------------------------------------------------------------
(* xi_rope::Rope line queries and xi_core_lib::word_boundaries, as used by
   region_for_gesture.  A text is a sequence of one-character strings. *)

Newline == "\n"

\* Number of newlines in t[0, offset)
RECURSIVE CountNewlines(_, _)
CountNewlines(t, offset) ==
    IF offset = 0 THEN 0
    ELSE CountNewlines(t, offset - 1) + (IF t[offset] = Newline THEN 1 ELSE 0)

\* Rope::line_of_offset(offset)
LineOfOffset(t, offset) == CountNewlines(t, offset)

\* Rope::offset_of_line(line): the offset after the line-th newline;
\* len() for the line past the last one.  (A larger line panics; the
\* callers here never ask for one.)
OffsetOfLine(t, line) ==
    IF line = CountNewlines(t, Len(t)) + 1 THEN Len(t)
    ELSE IF line = 0 THEN 0
    ELSE CHOOSE p \in 1..Len(t) :
             t[p] = Newline /\ CountNewlines(t, p) = line

\* get_word_property(codepoint), on the characters of the texts used here.
GetWordProperty(c) ==
    IF c = Newline THEN "Lf"
    ELSE IF c = " " THEN "Space"
    ELSE IF c \in {".", ",", "(", ")"} THEN "Punctuation"
    ELSE "Other"

\* classify_boundary(prev, next)
ClassifyBoundary(prev, next) ==
    CASE prev = "Lf" /\ next = "Lf" -> "Start"
      [] prev = "Lf" /\ next = "Space" -> "Interior"
      [] prev = "Space" /\ next = "Lf" -> "Interior"
      [] prev = "Space" /\ next = "Space" -> "Interior"
      [] prev # "Lf" /\ prev # "Space" /\ next = "Space" -> "End"
      [] prev = "Space" /\ next # "Space" /\ next # "Lf" -> "Start"
      [] prev = "Lf" /\ next # "Space" /\ next # "Lf" -> "Start"
      [] prev # "Lf" /\ prev # "Space" /\ next = "Lf" -> "End"
      [] prev = "Punctuation" /\ next = "Other" -> "Both"
      [] prev = "Other" /\ next = "Punctuation" -> "Both"
      [] OTHER -> "Interior"

\* classify_boundary_initial(prev, next)
ClassifyBoundaryInitial(prev, next) ==
    CASE prev = "Lf" /\ next = "Other" -> "Start"
      [] prev = "Other" /\ next = "Lf" -> "End"
      [] prev = "Lf" /\ next = "Space" -> "Start"
      [] prev = "Lf" /\ next = "Punctuation" -> "Start"
      [] prev = "Space" /\ next = "Lf" -> "End"
      [] prev = "Punctuation" /\ next = "Lf" -> "End"
      [] prev = "Space" /\ next = "Punctuation" -> "Start"
      [] prev = "Punctuation" /\ next = "Space" -> "End"
      [] OTHER -> ClassifyBoundary(prev, next)

IsStart(b) == b \in {"Start", "Both"}

IsEnd(b) == b \in {"End", "Both"}

IsBoundary(b) == b # "Interior"

\* The word property of the character at offset p, None outside the text.
PropAt(t, p) == IF 0 <= p /\ p < Len(t) THEN Some(GetWordProperty(t[p + 1])) ELSE None

\* The backward loop of WordCursor::select_word
RECURSIVE SelectWordStart(_, _, _, _)
SelectWordStart(t, initial, init_boundary, start) ==
    LET prop_before == PropAt(t, start - 1)
        prop_after == PropAt(t, start)
    IN  IF prop_before = None \/ prop_after = None THEN start
        ELSE IF start = initial
        THEN IF IsStart(init_boundary) THEN start
             ELSE SelectWordStart(t, initial, init_boundary, start - 1)
        ELSE IF ~IsBoundary(init_boundary)
        THEN IF IsBoundary(ClassifyBoundary(prop_before[1], prop_after[1])) THEN start
             ELSE SelectWordStart(t, initial, init_boundary, start - 1)
        ELSE IF IsStart(ClassifyBoundary(prop_before[1], prop_after[1])) THEN start
        ELSE SelectWordStart(t, initial, init_boundary, start - 1)

\* The forward loop of WordCursor::select_word
RECURSIVE SelectWordEnd(_, _, _, _)
SelectWordEnd(t, initial, init_boundary, end) ==
    LET prop_before == PropAt(t, end - 1)
        prop_after == PropAt(t, end)
    IN  IF prop_before = None \/ prop_after = None THEN end
        ELSE IF end = initial
        THEN IF IsEnd(init_boundary) THEN end
             ELSE SelectWordEnd(t, initial, init_boundary, end + 1)
        ELSE IF ~IsBoundary(init_boundary)
        THEN IF IsBoundary(ClassifyBoundary(prop_before[1], prop_after[1])) THEN end
             ELSE SelectWordEnd(t, initial, init_boundary, end + 1)
        ELSE IF IsEnd(ClassifyBoundary(prop_before[1], prop_after[1])) THEN end
        ELSE SelectWordEnd(t, initial, init_boundary, end + 1)

\* WordCursor::new(text, offset).select_word(): (start, end)
SelectWord(t, initial) ==
    LET init_prop_after == PropAt(t, initial)
        init_prop_before == PropAt(t, initial - 1)
        init_boundary ==
            IF init_prop_before # None /\ init_prop_after # None
            THEN ClassifyBoundaryInitial(init_prop_before[1], init_prop_after[1])
            ELSE "Both"
        \* at the end of the text the scan starts one character back
        start0 == IF init_prop_after = None THEN Max2(initial - 1, 0) ELSE initial
        \* at the start of the text the scan starts one character on
        end0 == IF init_prop_before = None THEN Min2(initial + 1, Len(t)) ELSE initial
    IN  <<SelectWordStart(t, initial, init_boundary, start0),
          SelectWordEnd(t, initial, init_boundary, end0)>>

---------------------------------------------------------------------------
(* gesture.rs *)

Granularities == {"Point", "Word", "Line"}

\* region_for_gesture with the Line variant stopping before the terminator.
region_for_gesture_LineWithoutTerminator(t, offset, granularity) ==
    CASE granularity = "Point" -> SelRegionCaret(offset)
      [] granularity = "Word" ->
           LET w == SelectWord(t, offset) IN SelRegionNew(w[1], w[2])
      [] granularity = "Line" ->
           LET line == LineOfOffset(t, offset)
               start == OffsetOfLine(t, line)
               end == OffsetOfLine(t, line + 1)
           IN  SelRegionNew(start, IF end > start /\ t[end] = Newline
                                   THEN end - 1 ELSE end)

\* region_for_gesture(text, offset, granularity)
region_for_gesture(t, offset, granularity) ==
    CASE granularity = "Point" -> SelRegionCaret(offset)
      [] granularity = "Word" ->
           LET w == SelectWord(t, offset) IN SelRegionNew(w[1], w[2])
      [] granularity = "Line" ->
           LET line == LineOfOffset(t, offset)
               start == OffsetOfLine(t, line)
               end == OffsetOfLine(t, line + 1)
           IN  SelRegionNew(start, end)

\* The texts of the runs.
\* "hello world\nfoo bar\n"
HelloText ==
    <<"h", "e", "l", "l", "o", " ", "w", "o", "r", "l", "d", Newline,
      "f", "o", "o", " ", "b", "a", "r", Newline>>

\* "a b.\n\nc": punctuation, an empty line, a last line without terminator
ShortText == <<"a", ".", Newline, Newline, "b">>

Texts == {HelloText, ShortText}

\* The offsets of the pointer events: every offset of the short text; on
\* the long text the ends of the text, the inside and the end of "hello",
\* the inside of "world" and the inside of "foo".
Offsets(t) == IF t = HelloText THEN {0, 2, 5, 8, 14, Len(t)} ELSE 0..Len(t)

\* region_for_gesture on every text and offset of the runs, computed once.
RegionTable ==
    [t \in Texts |-> [o \in Offsets(t) |-> [g \in Granularities |->
        region_for_gesture(t, o, g)]]]

\* The call region_for_gesture(text, offset, granularity)
RegionFor(t, offset, granularity) == RegionTable[t][offset][granularity]

\* region_extending_region running to the extension's end on both sides.
region_extending_region_AlwaysEnd(t, active_start, active_end, offset, granularity) ==
    SelRegionNew(active_start, RegionFor(t, offset, granularity).end)

\* region_extending_region(text, active_region_interval, offset, granularity)
\* with active_region_interval = active_start..active_end
region_extending_region(t, active_start, active_end, offset, granularity) ==
    LET extension == RegionFor(t, offset, granularity) IN
    IF offset >= active_start
    THEN SelRegionNew(active_start, extension.end)
    ELSE SelRegionNew(active_start, extension.start)

\* struct DragState
DragState(base_sel, min, max, granularity) ==
    [base_sel |-> base_sel, min |-> min, max |-> max, granularity |-> granularity]

\* IsToggleOff without the test on the number of regions.
IsToggleOff_NoCount(s, offset, gesture) ==
    /\ gesture.type = "Select"
    /\ gesture.granularity = "Point"
    /\ gesture.multi
    /\ RegionsInRange(s, offset, offset) # <<>>

\* The test of the first if of selection_for_gesture: a Point, multi
\* Select on an offset some region touches, with more than one region.
IsToggleOff(s, offset, gesture) ==
    /\ gesture.type = "Select"
    /\ gesture.granularity = "Point"
    /\ gesture.multi
    /\ RegionsInRange(s, offset, offset) # <<>>
    /\ Len(s) > 1

\* Each arm of selection_for_gesture gives the selection returned, the
\* drag-state slot afterwards and the arm's name.

\* ToggleOffArm starting a drag from the caret at the offset.
ToggleOffArm_WritesSlot(s, ds, offset) ==
    LET new == DeleteRange(s, offset, offset, TRUE)
    IN  [ret |-> new, drag_state |-> Some(DragState(new, offset, offset, "Point")),
         path |-> "toggle"]

\* The toggle-off: "we don't allow toggling the last selection"
ToggleOffArm(s, ds, offset) ==
    [ret |-> DeleteRange(s, offset, offset, TRUE), drag_state |-> ds,
     path |-> "toggle"]

\* SelectArm replacing the current selection whatever multi says.
SelectArm_DropsPrior(t, s, offset, granularity, multi) ==
    LET new_region == RegionFor(t, offset, granularity)
        new_sel == SelectionFrom(new_region)
    IN  [ret |-> new_sel,
         drag_state |-> Some(DragState(new_sel, new_region.start,
                                       new_region.end, granularity)),
         path |-> "select"]

\* SelectArm adding to the current selection whatever multi says.
SelectArm_KeepsPrior(t, s, offset, granularity, multi) ==
    LET new_region == RegionFor(t, offset, granularity)
        new_sel == AddRegion(s, new_region)
    IN  [ret |-> new_sel,
         drag_state |-> Some(DragState(new_sel, new_region.start,
                                       new_region.end, granularity)),
         path |-> "select"]

\* GestureType::Select { granularity, multi }
SelectArm(t, s, offset, granularity, multi) ==
    LET new_region == RegionFor(t, offset, granularity)
        new_sel == IF multi THEN AddRegion(s, new_region)
                   ELSE SelectionFrom(new_region)
    IN  [ret |-> new_sel,
         drag_state |-> Some(DragState(new_sel, new_region.start,
                                       new_region.end, granularity)),
         path |-> "select"]

\* SelectExtendArm extending from the first region of the selection.
SelectExtendArm_FromFirst(t, s, ds, offset, granularity) ==
    IF Len(s) = 0
    THEN [ret |-> s, drag_state |-> ds, path |-> "extend_empty"]
    ELSE
      LET active_region == s[1]
          new_region == RegionFor(t, offset, granularity)
          merged_region ==
              IF offset >= new_region.start
              THEN SelRegionNew(active_region.start, new_region.end)
              ELSE SelRegionNew(active_region.start, new_region.start)
          new == AddRegion(s, merged_region)
      IN  [ret |-> new,
           drag_state |-> Some(DragState(new, new_region.start,
                                         new_region.end, granularity)),
           path |-> "extend"]

\* SelectExtendArm ending the drag when there is nothing to extend.
SelectExtendArm_EmptyClearsSlot(t, s, ds, offset, granularity) ==
    IF Len(s) = 0
    THEN [ret |-> s, drag_state |-> None, path |-> "extend_empty"]
    ELSE
      LET active_region == s[Len(s)]
          new_region == RegionFor(t, offset, granularity)
          merged_region ==
              IF offset >= new_region.start
              THEN SelRegionNew(active_region.start, new_region.end)
              ELSE SelRegionNew(active_region.start, new_region.start)
          new == AddRegion(s, merged_region)
      IN  [ret |-> new,
           drag_state |-> Some(DragState(new, new_region.start,
                                         new_region.end, granularity)),
           path |-> "extend"]

\* SelectExtendArm returning the merged region alone.
SelectExtendArm_ReplacesSelection(t, s, ds, offset, granularity) ==
    IF Len(s) = 0
    THEN [ret |-> s, drag_state |-> ds, path |-> "extend_empty"]
    ELSE
      LET active_region == s[Len(s)]
          new_region == RegionFor(t, offset, granularity)
          merged_region == SelRegionNew(active_region.start, new_region.end)
          new == SelectionFrom(merged_region)
      IN  [ret |-> new,
           drag_state |-> Some(DragState(new, new_region.start,
                                         new_region.end, granularity)),
           path |-> "extend"]

\* SelectExtendArm storing the merged region's ends as min and max.
SelectExtendArm_StoresMerged(t, s, ds, offset, granularity) ==
    IF Len(s) = 0
    THEN [ret |-> s, drag_state |-> ds, path |-> "extend_empty"]
    ELSE
      LET active_region == s[Len(s)]
          new_region == RegionFor(t, offset, granularity)
          merged_region == SelRegionNew(active_region.start, new_region.end)
          new == AddRegion(s, merged_region)
      IN  [ret |-> new,
           drag_state |-> Some(DragState(new, RMin(merged_region),
                                         RMax(merged_region), granularity)),
           path |-> "extend"]

\* SelectExtendArm testing the offset against the active region's start,
\* as region_extending_region does.
SelectExtendArm_TestsActive(t, s, ds, offset, granularity) ==
    IF Len(s) = 0
    THEN [ret |-> s, drag_state |-> ds, path |-> "extend_empty"]
    ELSE
      LET active_region == s[Len(s)]
          new_region == RegionFor(t, offset, granularity)
          merged_region ==
              IF offset >= active_region.start
              THEN SelRegionNew(active_region.start, new_region.end)
              ELSE SelRegionNew(active_region.start, new_region.start)
          new == AddRegion(s, merged_region)
      IN  [ret |-> new,
           drag_state |-> Some(DragState(new, new_region.start,
                                         new_region.end, granularity)),
           path |-> "extend"]

\* GestureType::SelectExtend { granularity }
SelectExtendArm(t, s, ds, offset, granularity) ==
    IF Len(s) = 0
    THEN [ret |-> s, drag_state |-> ds, path |-> "extend_empty"]
    ELSE
      LET active_region == s[Len(s)]
          new_region == RegionFor(t, offset, granularity)
          merged_region ==
              IF offset >= new_region.start
              THEN SelRegionNew(active_region.start, new_region.end)
              ELSE SelRegionNew(active_region.start, new_region.start)
          new == AddRegion(s, merged_region)
      IN  [ret |-> new,
           drag_state |-> Some(DragState(new, new_region.start,
                                         new_region.end, granularity)),
           path |-> "extend"]

\* DragArm answering a Drag over an empty slot with an empty selection.
DragArm_NoneGivesEmpty(t, s, ds, offset) ==
    IF ds = None
    THEN [ret |-> <<>>, drag_state |-> ds, path |-> "drag_none"]
    ELSE
      LET d == ds[1]
          new_region == region_extending_region(t, d.min, d.max, offset,
                                                d.granularity)
      IN  [ret |-> AddRegion(d.base_sel, WithHoriz(new_region, None)),
           drag_state |-> ds, path |-> "drag"]

\* DragArm moving the anchor of the slot to the offset of the Drag.
DragArm_MovesAnchor(t, s, ds, offset) ==
    IF ds = None
    THEN [ret |-> s, drag_state |-> ds, path |-> "drag_none"]
    ELSE
      LET d == ds[1]
          new_region == region_extending_region(t, d.min, d.max, offset,
                                                d.granularity)
      IN  [ret |-> AddRegion(d.base_sel, WithHoriz(new_region, None)),
           drag_state |-> Some(DragState(d.base_sel, offset, Max2(offset, d.max),
                                         d.granularity)),
           path |-> "drag"]

\* DragArm storing the selection it returns as the new base selection.
DragArm_Rebases(t, s, ds, offset) ==
    IF ds = None
    THEN [ret |-> s, drag_state |-> ds, path |-> "drag_none"]
    ELSE
      LET d == ds[1]
          new_region == region_extending_region(t, d.min, d.max, offset,
                                                d.granularity)
          new == AddRegion(d.base_sel, WithHoriz(new_region, None))
      IN  [ret |-> new,
           drag_state |-> Some(DragState(new, d.min, d.max, d.granularity)),
           path |-> "drag"]

\* DragArm taking the drag state out of the slot instead of borrowing it.
DragArm_TakesSlot(t, s, ds, offset) ==
    IF ds = None
    THEN [ret |-> s, drag_state |-> ds, path |-> "drag_none"]
    ELSE
      LET d == ds[1]
          new_region == region_extending_region(t, d.min, d.max, offset,
                                                d.granularity)
      IN  [ret |-> AddRegion(d.base_sel, WithHoriz(new_region, None)),
           drag_state |-> None, path |-> "drag"]

\* DragArm adding the dragged region to the current selection.
DragArm_AddsToCurrent(t, s, ds, offset) ==
    IF ds = None
    THEN [ret |-> s, drag_state |-> ds, path |-> "drag_none"]
    ELSE
      LET d == ds[1]
          new_region == region_extending_region(t, d.min, d.max, offset,
                                                d.granularity)
      IN  [ret |-> AddRegion(s, WithHoriz(new_region, None)),
           drag_state |-> ds, path |-> "drag"]

\* GestureType::Drag
DragArm(t, s, ds, offset) ==
    IF ds = None
    THEN [ret |-> s, drag_state |-> ds, path |-> "drag_none"]
    ELSE
      LET d == ds[1]
          new_region == region_extending_region(t, d.min, d.max, offset,
                                                d.granularity)
      IN  [ret |-> AddRegion(d.base_sel, WithHoriz(new_region, None)),
           drag_state |-> ds, path |-> "drag"]

\* PanicArm answering an unexpected gesture with the current selection.
PanicArm_Swallows(s, ds) == [ret |-> s, drag_state |-> ds, path |-> "ignored"]

\* _other => panic!: nothing is returned and the slot is not written.
PanicArm(s, ds) == [ret |-> s, drag_state |-> ds, path |-> "panic"]

\* GestureContext::selection_for_gesture(offset, gesture) on the context
\* (text t, selection s, drag-state slot ds)
selection_for_gesture(t, s, ds, offset, gesture) ==
    IF IsToggleOff(s, offset, gesture) THEN ToggleOffArm(s, ds, offset)
    ELSE CASE gesture.type = "Select" ->
                SelectArm(t, s, offset, gesture.granularity, gesture.multi)
           [] gesture.type = "SelectExtend" ->
                SelectExtendArm(t, s, ds, offset, gesture.granularity)
           [] gesture.type = "Drag" -> DragArm(t, s, ds, offset)
           [] OTHER -> PanicArm(s, ds)

---------------------------------------------------------------------------
(* The caller: it holds the text, the current selection and the drag-state
   slot, calls selection_for_gesture once per pointer event and installs
   the selection returned as the current one. *)

\* A horizontal hint left on a region by an earlier vertical movement.
SomeHoriz == Some("h")

\* Selections the caller may hold before the first gesture.
InitialSelections(t) ==
    { <<>>,
      <<[start |-> 0, end |-> 5, horiz |-> SomeHoriz]>>,
      <<SelRegionNew(0, 2), SelRegionNew(2, 5)>>,
      <<SelRegionCaret(0), [start |-> 3, end |-> 1, horiz |-> SomeHoriz],
        SelRegionNew(4, Len(t))>> }

\* GestureType values other than Select, SelectExtend and Drag
OtherGestureTypes == {"ToggleSel"}

Init ==
    /\ text \in Texts
    /\ sel \in InitialSelections(text)
    /\ drag_state = None
    /\ call = [offset |-> 0, gesture |-> [type |-> "None"], path |-> "init",
               again |-> FALSE, len_before |-> 0]
    /\ steps = 0

\* One call of selection_for_gesture, the caller installing the selection
\* returned; a panic returns nothing to install and ends the run.  call
\* records the arguments of the last call, the arm that answered it,
\* whether the call before it had the same arguments, and the number of
\* regions the selection had when the call was made.
Gesture(offset, gesture) ==
    /\ steps < MaxSteps
    /\ call.path # "panic"
    /\ \E r \in {selection_for_gesture(text, sel, drag_state, offset, gesture)} :
           /\ sel' = r.ret
           /\ drag_state' = r.drag_state
           /\ call' = [offset |-> offset, gesture |-> gesture, path |-> r.path,
                       again |-> (call.offset = offset /\ call.gesture = gesture),
                       len_before |-> Len(sel)]
    /\ steps' = steps + 1
    /\ UNCHANGED text

Select ==
    \E offset \in Offsets(text), granularity \in Granularities, multi \in BOOLEAN :
        Gesture(offset, [type |-> "Select", granularity |-> granularity,
                         multi |-> multi])

SelectExtend ==
    \E offset \in Offsets(text), granularity \in Granularities :
        Gesture(offset, [type |-> "SelectExtend", granularity |-> granularity])

Drag ==
    \E offset \in Offsets(text) : Gesture(offset, [type |-> "Drag"])

Unexpected ==
    \E offset \in Offsets(text), ty \in OtherGestureTypes :
        Gesture(offset, [type |-> ty])

Next == Select \/ SelectExtend \/ Drag \/ Unexpected

Spec == Init /\ [][Next]_vars

---------------------------------------------------------------------------
(* The resolver on its own: region_for_gesture applied to every short text
   over letters, spaces, punctuation and newlines, at every offset. *)

MaxLen == 4

Alphabet == {"a", " ", ".", Newline}

ResolveTexts == UNION {[1..n -> Alphabet] : n \in 0..MaxLen}

ResolveInit ==
    /\ text \in ResolveTexts
    /\ sel = <<>>
    /\ drag_state = None
    /\ call = [offset |-> 0, gesture |-> [type |-> "None"], path |-> "init",
               again |-> FALSE, len_before |-> 0]
    /\ steps = 0

\* One call region_for_gesture(&text, offset, granularity); sel holds the
\* region returned.
Resolve ==
    \E offset \in 0..Len(text), granularity \in Granularities :
        /\ sel' = <<region_for_gesture(text, offset, granularity)>>
        /\ call' = [offset |-> offset,
                    gesture |-> [type |-> "Resolve", granularity |-> granularity],
                    path |-> "resolve",
                    again |-> (call.offset = offset /\ call.gesture.type = "Resolve"
                               /\ call.gesture.granularity = granularity),
                    len_before |-> Len(sel)]
        /\ UNCHANGED <<text, drag_state, steps>>

ResolveNext == Resolve

ResolveSpec == ResolveInit /\ [][ResolveNext]_vars

---------------------------------------------------------------------------
(* Well-formedness of the model's values *)

\* A Selection is sorted, and no two of its regions would merge: this is
\* what makes the binary search of Selection::search well defined.
SelectionOK(s) ==
    \A i \in 1..(Len(s) - 1) :
        /\ RMin(s[i]) <= RMin(s[i + 1])
        /\ RMax(s[i]) < RMax(s[i + 1])
        /\ ~ShouldMerge(s[i], s[i + 1])

TypeOK ==
    /\ text \in Texts
    /\ SelectionOK(sel)
    /\ \A i \in 1..Len(sel) : {sel[i].start, sel[i].end} \subseteq 0..Len(text)
    /\ drag_state # None =>
          /\ SelectionOK(drag_state[1].base_sel)
          /\ drag_state[1].min <= drag_state[1].max
          /\ drag_state[1].granularity \in Granularities
    /\ steps \in 0..MaxSteps

---------------------------------------------------------------------------
(* Properties of selection_for_gesture.  The argument of the step is read
   from call', the context of the call from the unprimed variables. *)

\* Region r touches offset: min <= offset <= max.
Touches(r, offset) == RMin(r) <= offset /\ offset <= RMax(r)

\* The toggle-off case stated on the selection: a Point, multi Select at an
\* offset a region touches, on a selection of more than one region.
TogglesOff(s, c) ==
    /\ c.gesture = [type |-> "Select", granularity |-> "Point", multi |-> TRUE]
    /\ Len(s) > 1
    /\ \E i \in 1..Len(s) : Touches(s[i], c.offset)

IsSelect(c) == c.gesture.type = "Select"

IsSelectExtend(c) == c.gesture.type = "SelectExtend"

IsDrag(c) == c.gesture.type = "Drag"

\* The region the resolver gives for the call's offset at granularity g.
Resolved(c, g) == RegionFor(text, c.offset, g)

\* C1: a gesture never empties a selection that has a region; in particular
\* a Point, multi Select on a selection whose only region touches the offset
\* leaves a region touching the offset.
C1_NeverEmptied ==
    [][ /\ Len(sel) >= 1 => Len(sel') >= 1
        /\ ( /\ Len(sel) = 1
             /\ Touches(sel[1], call'.offset)
             /\ call'.gesture = [type |-> "Select", granularity |-> "Point",
                                 multi |-> TRUE] )
           => \E i \in 1..Len(sel') : Touches(sel'[i], call'.offset) ]_vars

\* A toggle-off has just left a selection of a single region.
C1_Witness == call.path = "toggle" /\ call.len_before = 2 /\ Len(sel) = 1

\* C2: a Select that does not toggle off returns exactly the resolved region
\* when multi is false, and the current selection with the resolved region
\* added (Selection::add_region) when multi is true.
C2_SelectResult ==
    [][ (IsSelect(call') /\ ~TogglesOff(sel, call')) =>
          LET r == Resolved(call', call'.gesture.granularity) IN
          IF call'.gesture.multi
          THEN sel' = AddRegion(sel, r)
          ELSE Len(sel') = 1 /\ sel'[1] = r ]_vars

\* Select{Word, multi: false} at 2 in "hello world\nfoo bar\n" gave {[0,5)},
\* whatever was selected before.
C2_Witness ==
    /\ text = HelloText
    /\ call.gesture = [type |-> "Select", granularity |-> "Word", multi |-> FALSE]
    /\ call.offset = 2
    /\ call.len_before = 3
    /\ sel = <<SelRegionNew(0, 5)>>

\* C3: with a filled slot (base, min, max, granularity), Drag returns base
\* with one region added: from min to the end of the region resolved at the
\* stored granularity when offset >= min, to its start when offset < min.
\* After Select{Word} at 2 in "hello world\nfoo bar\n", Drag at 8 gives
\* {[0,11)}.
C3_DragResult ==
    [][ (IsDrag(call') /\ drag_state # None) =>
          LET d == drag_state[1]
              r == Resolved(call', d.granularity)
              far == IF call'.offset >= d.min THEN r.end ELSE r.start
          IN  /\ sel' = AddRegion(d.base_sel, SelRegionNew(d.min, far))
              /\ ( /\ text = HelloText
                   /\ d = DragState(<<SelRegionNew(0, 5)>>, 0, 5, "Word")
                   /\ call'.offset = 8 )
                 => sel' = <<SelRegionNew(0, 11)>> ]_vars

\* The Drag at 8 of the scenario has returned {[0,11)}.
C3_Witness ==
    /\ text = HelloText
    /\ call.path = "drag"
    /\ call.offset = 8
    /\ drag_state = Some(DragState(<<SelRegionNew(0, 5)>>, 0, 5, "Word"))
    /\ sel = <<SelRegionNew(0, 11)>>

\* C4: a Drag never changes the drag-state slot, empty or filled.
C4_DragKeepsSlot ==
    [][ IsDrag(call') => drag_state' = drag_state ]_vars

\* A second consecutive Drag over a filled slot, with a selection that is
\* not the slot's base selection.
C4_Witness ==
    /\ call.path = "drag"
    /\ call.again
    /\ sel # drag_state[1].base_sel

RegionOf(r, s) == \E i \in 1..Len(s) : s[i] = r

\* Region inner lies inside region outer.
Inside(inner, outer) == RMin(outer) <= RMin(inner) /\ RMax(inner) <= RMax(outer)

\* Every region of s lies inside some region of s2.
CoveredBy(s, s2) ==
    \A i \in 1..Len(s) : \E j \in 1..Len(s2) : Inside(s[i], s2[j])

\* C6 (as claimed): a toggle-off returns the current selection without the
\* regions that cover the offset: fewer regions, every region that does not
\* cover the offset kept unchanged, no region added, none left that covers
\* the offset.
C6_ToggleOffRemovesCovering ==
    [][ TogglesOff(sel, call') =>
          /\ Len(sel') < Len(sel)
          /\ \A i \in 1..Len(sel) :
                ~Touches(sel[i], call'.offset) => RegionOf(sel[i], sel')
          /\ \A j \in 1..Len(sel') : RegionOf(sel'[j], sel)
          /\ \A j \in 1..Len(sel') : ~Touches(sel'[j], call'.offset) ]_vars

\* The sole-region case of C7: a Point, multi Select at an offset the only
\* region of the selection touches.
SoleRegionClicked(s, c) ==
    /\ c.gesture = [type |-> "Select", granularity |-> "Point", multi |-> TRUE]
    /\ Len(s) = 1
    /\ Touches(s[1], c.offset)

\* C7 (as claimed): a Point, multi Select at an offset covered by the only
\* region of the selection returns exactly the caret at the offset.
C7_SoleRegionReplacedByCaret ==
    [][ SoleRegionClicked(sel, call') =>
          sel' = <<SelRegionCaret(call'.offset)>> ]_vars

\* C7 (amended): in that case the caret is added to the selection and merges
\* into the region: the selection returned is the one region from the old
\* region's min to its max (forward, without horizontal hint), and only the
\* slot records the caret (min = max = offset).
C7_SoleRegionKept ==
    [][ SoleRegionClicked(sel, call') =>
          /\ sel' = <<SelRegionNew(RMin(sel[1]), RMax(sel[1]))>>
          /\ drag_state' = Some(DragState(sel', call'.offset, call'.offset,
                                          "Point")) ]_vars

\* Select{Point, multi: true} at 2 on {[0,5)} has returned {[0,5)}.
C7_Witness ==
    /\ call.gesture = [type |-> "Select", granularity |-> "Point", multi |-> TRUE]
    /\ call.path = "select"
    /\ call.offset = 2
    /\ call.len_before = 1
    /\ sel = <<SelRegionNew(0, 5)>>

\* C8 (as claimed): a Select that does not toggle off, a SelectExtend and a
\* Drag return at least as many regions as the current selection has.
C8_OnlyToggleOffShrinks ==
    [][ ( \/ IsSelect(call') /\ ~TogglesOff(sel, call')
          \/ IsSelectExtend(call')
          \/ IsDrag(call') ) => Len(sel') >= Len(sel) ]_vars

\* C8 (amended): the count also shrinks without a toggle-off, by replacement
\* or by merging.  A Select with multi false returns one region; a Select
\* with multi true that does not toggle off and a SelectExtend return at
\* most one region more than the current selection has, and each region of
\* the current selection lies inside one of the regions returned; a Drag
\* over a filled slot does the same to the slot's base selection, and a Drag
\* over an empty slot returns as many regions as there were.
C8_ShrinksOnlyByMergeOrReplace ==
    [][ /\ (IsSelect(call') /\ ~TogglesOff(sel, call') /\ ~call'.gesture.multi)
              => Len(sel') = 1
        /\ ( \/ IsSelect(call') /\ ~TogglesOff(sel, call') /\ call'.gesture.multi
             \/ IsSelectExtend(call') )
              => Len(sel') <= Len(sel) + 1 /\ CoveredBy(sel, sel')
        /\ (IsDrag(call') /\ drag_state # None)
              => /\ Len(sel') <= Len(drag_state[1].base_sel) + 1
                 /\ CoveredBy(drag_state[1].base_sel, sel')
        /\ (IsDrag(call') /\ drag_state = None) => Len(sel') = Len(sel) ]_vars

\* A SelectExtend has returned fewer regions than the selection had.
C8_Witness == call.path = "extend" /\ Len(sel) < call.len_before

\* C9: a Drag over an empty slot returns the current selection, empty or not.
C9_DragWithoutSlot ==
    [][ (IsDrag(call') /\ drag_state = None) => sel' = sel ]_vars

\* A Drag over an empty slot has returned a selection of several regions.
C9_Witness == call.path = "drag_none" /\ drag_state = None /\ Len(sel) > 1

\* C10: two Drags in a row at the same offset return the same selection,
\* whether or not the caller installed the first result as the current
\* selection before the second.
C10_DragTwiceSame ==
    [][ /\ (IsDrag(call) /\ IsDrag(call') /\ call'.offset = call.offset)
              => sel' = sel
        /\ IsDrag(call') =>
              /\ selection_for_gesture(text, sel', drag_state', call'.offset,
                                       call'.gesture).ret = sel'
              /\ selection_for_gesture(text, sel, drag_state', call'.offset,
                                       call'.gesture).ret = sel' ]_vars

\* The second of two Drags at one offset, away from the anchor, has returned.
C10_Witness ==
    /\ call.path = "drag"
    /\ call.again
    /\ call.offset > drag_state[1].max

\* C11: a SelectExtend on a selection with a region returns the current
\* selection with one region added (Selection::add_region) that starts at
\* the start of the last region of the current selection; its other end is
\* an end of the region resolved at the offset.
C11_ExtendFromLastRegion ==
    [][ (IsSelectExtend(call') /\ Len(sel) >= 1) =>
          LET r == Resolved(call', call'.gesture.granularity)
              active == sel[Len(sel)]
          IN  \E far \in {r.start, r.end} :
                  sel' = AddRegion(sel, SelRegionNew(active.start, far)) ]_vars

\* A SelectExtend on several regions has returned at an offset left of its
\* anchor: the first region of the result runs backward from the anchor.
C11_Witness ==
    /\ call.path = "extend"
    /\ call.len_before >= 2
    /\ sel[1].start > sel[1].end
    /\ sel[1].horiz = None
    /\ call.offset < sel[1].start

\* C12: a SelectExtend on a selection without regions returns it unchanged
\* and leaves the slot as it was, empty or filled.  The filled slot is that
\* of the current state, handed to selection_for_gesture with the empty
\* selection.
C12_ExtendEmptyIsNoOp ==
    [][ /\ (IsSelectExtend(call') /\ Len(sel) = 0)
              => sel' = sel /\ drag_state' = drag_state
        /\ \A g \in Granularities :
              LET r == selection_for_gesture(text, <<>>, drag_state', call'.offset,
                           [type |-> "SelectExtend", granularity |-> g])
              IN  r.ret = <<>> /\ r.drag_state = drag_state' ]_vars

\* A second SelectExtend in a row has returned the empty selection.
C12_Witness ==
    /\ call.path = "extend_empty"
    /\ call.again
    /\ sel = <<>>
    /\ drag_state = None

\* C13: a Select that takes the toggle-off path leaves the slot unchanged.
C13_ToggleOffKeepsSlot ==
    [][ TogglesOff(sel, call') => drag_state' = drag_state ]_vars

\* A toggle-off has returned over a filled slot whose base selection still
\* holds the region removed.
C13_Witness ==
    /\ call.path = "toggle"
    /\ drag_state # None
    /\ Len(drag_state[1].base_sel) > Len(sel)

\* C14: a gesture other than Select, SelectExtend and Drag makes
\* selection_for_gesture panic: no selection is returned to install, the
\* slot is not written, and no call follows the abort.
C14_UnexpectedGesturePanics ==
    [][ /\ call'.gesture.type \notin {"Select", "SelectExtend", "Drag"}
              => call'.path = "panic" /\ sel' = sel /\ drag_state' = drag_state
        /\ call'.gesture.type \in {"Select", "SelectExtend", "Drag"}
              => call'.path # "panic"
        /\ call.path # "panic" ]_vars

\* An unexpected gesture has panicked over a filled slot.
C14_Witness ==
    /\ call.path = "panic"
    /\ call.gesture.type \in OtherGestureTypes
    /\ drag_state # None
    /\ Len(sel) > 1

\* The slot has just been written: a Select that does not toggle off, or a
\* SelectExtend on a selection with a region.
WritesSlot(s, c) ==
    \/ IsSelect(c) /\ ~TogglesOff(s, c)
    \/ IsSelectExtend(c) /\ Len(s) >= 1

\* C15 (as claimed): the base selection a Select or SelectExtend stores in
\* the slot excludes the region the gesture manipulates: no region of it
\* covers the region selected (Select) or the merged region (SelectExtend).
C15_BaseExcludesManipulated ==
    [][ WritesSlot(sel, call') =>
          LET r == Resolved(call', call'.gesture.granularity)
              base == drag_state'[1].base_sel
              manipulated ==
                  IF IsSelect(call') THEN {r}
                  ELSE {m \in {SelRegionNew(sel[Len(sel)].start, r.start),
                               SelRegionNew(sel[Len(sel)].start, r.end)} :
                           sel' = AddRegion(sel, m)}
          IN  \A m \in manipulated :
                  \A i \in 1..Len(base) : ~Inside(m, base[i]) ]_vars

\* C16 (as claimed): the region a SelectExtend adds is
\* region_extending_region taken against the last region of the selection:
\* it ends at the resolved region's end when offset >= active.start and at
\* its start when offset < active.start.
C16_ExtendUsesExtensionRule ==
    [][ (IsSelectExtend(call') /\ Len(sel) >= 1) =>
          LET active == sel[Len(sel)] IN
          sel' = AddRegion(sel, region_extending_region(text, active.start,
                     active.end, call'.offset, call'.gesture.granularity)) ]_vars

\* The start of the line that holds offset o: o itself or the nearest
\* position to its left that is the start of the text or follows a newline.
LineStart(t, o) ==
    CHOOSE p \in 0..o :
        /\ p = 0 \/ t[p] = Newline
        /\ \A q \in (p + 1)..o : t[q] # Newline

\* The start of the line after the one that holds offset o: the position
\* after the first newline at or right of o, the end of a text without one.
LineEnd(t, o) ==
    IF \E q \in (o + 1)..Len(t) : t[q] = Newline
    THEN CHOOSE q \in (o + 1)..Len(t) :
             t[q] = Newline /\ \A k \in (o + 1)..(q - 1) : t[k] # Newline
    ELSE Len(t)

\* C17: for every text and every offset in 0..len(text) the Line variant
\* returns the forward region from the start of the line that holds the
\* offset to the start of the next line: it ends just after the line's
\* newline when the line has one and at len(text) when it has none, and the
\* offset lies between its start and its end (before its end unless the
\* offset is len(text)).
C17_LineRegion ==
    (call.path = "resolve" /\ call.gesture.granularity = "Line") =>
        LET r == sel[1]
            o == call.offset
        IN  /\ r = SelRegionNew(LineStart(text, o), LineEnd(text, o))
            /\ r.start <= o /\ o <= r.end
            /\ o < Len(text) => o < r.end
            /\ r.start = 0 \/ text[r.start] = Newline
            /\ \A k \in (r.start + 1)..(r.end - 1) : text[k] # Newline
            /\ r.end = Len(text) \/ text[r.end] = Newline
            /\ (r.end > r.start /\ text[r.end] # Newline) => r.end = Len(text)

\* The offset of a newline that ends an inner line has been resolved.
C17_Witness ==
    /\ call.path = "resolve"
    /\ call.gesture.granularity = "Line"
    /\ call.offset < Len(text)
    /\ text[call.offset + 1] = Newline
    /\ sel[1].start > 0
    /\ sel[1].start < call.offset
    /\ sel[1].end = call.offset + 1
    /\ sel[1].end < Len(text)

\* C18: a gesture never empties a filled drag-state slot, and the slot's
\* value changes only in a Select that does not toggle off or a
\* SelectExtend on a selection with a region.
C18_SlotStaysFilled ==
    [][ /\ drag_state # None => drag_state' # None
        /\ drag_state' # drag_state => WritesSlot(sel, call') ]_vars

\* A Drag, after a toggle-off or a merge made the current selection smaller
\* than the base selection, has left the slot filled.
C18_Witness ==
    /\ call.path = "drag"
    /\ drag_state # None
    /\ call.len_before < Len(drag_state[1].base_sel)
    /\ drag_state[1].granularity = "Line"

\* Region r is not a region of selection s.
NotIn(r, s) == \A k \in 1..Len(s) : s[k] # r

\* The selection a Drag at offset o returns for current selection s.
DragResult(s, ds, o) ==
    selection_for_gesture(text, s, ds, o, [type |-> "Drag"]).ret

\* C19 (as claimed): every region a toggle-off removes while the slot is
\* filled lies in the selection the next Drag returns, whatever its offset.
C19_ToggledRegionReturns ==
    [][ (TogglesOff(sel, call') /\ drag_state # None) =>
          \A o \in Offsets(text) :
              LET res == DragResult(sel', drag_state', o)
              IN  \A i \in 1..Len(sel) :
                      NotIn(sel[i], sel') =>
                          \E j \in 1..Len(res) : Inside(sel[i], res[j]) ]_vars

\* C19: with a filled slot the selection a Drag returns is the same for
\* every current selection; it covers every region of the slot's base
\* selection, so a region of the base selection that a toggle-off removed
\* lies in the selection the next Drag returns.
C19_DragIgnoresCurrent ==
    [][ /\ (IsDrag(call') /\ drag_state # None) =>
              /\ \A s2 \in {<<>>, drag_state[1].base_sel} :
                     DragResult(s2, drag_state, call'.offset) = sel'
              /\ CoveredBy(drag_state[1].base_sel, sel')
        /\ (TogglesOff(sel, call') /\ drag_state # None) =>
              \A o \in Offsets(text) :
                  \A res \in {DragResult(sel', drag_state', o)} :
                      LET base == drag_state[1].base_sel
                      IN  \A i \in 1..Len(sel) :
                              (NotIn(sel[i], sel')
                                 /\ \E b \in 1..Len(base) : Inside(sel[i], base[b]))
                              => \E j \in 1..Len(res) : Inside(sel[i], res[j]) ]_vars

\* A Drag has returned the base selection's regions to a current selection
\* that no longer covered them.
C19_Witness ==
    /\ call.path = "drag"
    /\ call.len_before < Len(drag_state[1].base_sel)
    /\ Len(sel) >= Len(drag_state[1].base_sel)
    /\ CoveredBy(drag_state[1].base_sel, sel)

\* The resolver never starts a region right of the offset, on any short
\* text.
ResolvedStartsAtOrBeforeOffset ==
    \A t \in ResolveTexts \cup Texts : \A o \in 0..Len(t) : \A g \in Granularities :
        region_for_gesture(t, o, g).start <= o

\* C20: the resolved region never starts right of the offset, so a
\* SelectExtend on a selection with a region always adds the region from
\* the active region's start to the resolved region's end, also when the
\* offset lies left of the active region.
C20_ExtendAlwaysToResolvedEnd ==
    [][ /\ ResolvedStartsAtOrBeforeOffset
        /\ \A g \in Granularities : Resolved(call', g).start <= call'.offset
        /\ (IsSelectExtend(call') /\ Len(sel) >= 1) =>
              LET r == Resolved(call', call'.gesture.granularity)
              IN  sel' = AddRegion(sel, SelRegionNew(sel[Len(sel)].start, r.end)) ]_vars

\* A SelectExtend left of the active region has added a backward region
\* that ends at the end of a resolved region that is not a caret.
C20_Witness ==
    /\ call.path = "extend"
    /\ drag_state[1].min < drag_state[1].max
    /\ \E i \in 1..Len(sel) :
           /\ sel[i].start > sel[i].end
           /\ sel[i].end = drag_state[1].max
           /\ sel[i].horiz = None
           /\ call.offset < sel[i].start

====
